---------------------------- MODULE Spec2Model ----------------------------
(***************************************************************************)
(* A model of ldziura/Advanced_Calculator: src/ComputeFormula.py           *)
(* (compute_formula and everything it calls) driven the way src/main.py    *)
(* and the tests drive it: a formula text and a bindings map are built,    *)
(* compute_formula is called on them, and the caller starts over.          *)
(*                                                                         *)
(* A Python str is a sequence of one-character strings.  A number is a    *)
(* record [ty, n, d]: ty is "int" or "float" and n/d is its value in      *)
(* lowest terms (d = 1 for an int).  Arithmetic is exact; a result that   *)
(* has no such representation within MaxMag (an irrational square root,   *)
(* sin 1, a huge power, a complex number) ends the evaluation with the    *)
(* pseudo-exception "OutOfModel", which no handler of the program         *)
(* catches, so that every outcome other than OutOfModel is the outcome    *)
(* CPython 3.11 produces.                                                  *)
(***************************************************************************)
EXTENDS Integers, Sequences, FiniteSets, TLC

(***************************************************************************)
(* Bounds of the model.                                                    *)
(***************************************************************************)
MaxFrags == 4
MaxBindings == 2
MaxMag == 10000
MaxCalls == 2

(***************************************************************************)
(* Characters.                                                             *)
(***************************************************************************)
Digits == {"0", "1", "2", "3", "4", "5", "6", "7", "8", "9"}
LowerCase == {"a", "b", "c", "d", "e", "f", "g", "h", "i", "j", "k", "l", "m",
              "n", "o", "p", "q", "r", "s", "t", "u", "v", "w", "x", "y", "z"}
UpperCase == {"A", "B", "C", "D", "E", "F", "G", "H", "I", "J", "K", "L", "M",
              "N", "O", "P", "Q", "R", "S", "T", "U", "V", "W", "X", "Y", "Z"}
AsciiLetters == LowerCase \cup UpperCase
\* str.isspace and the regex class \s, on the characters the model types.
WhiteSpace == {" ", "\t", "\n"}
HexLetters == {"a", "b", "c", "d", "e", "f", "A", "B", "C", "D", "E", "F"}

Range(s) == {s[i] : i \in 1..Len(s)}

(***************************************************************************)
(* str operations: `in`, str.find, str.replace.                            *)
(***************************************************************************)
MatchAt(s, p, i) ==
    /\ i >= 1
    /\ i + Len(p) - 1 <= Len(s)
    /\ \A k \in 1..Len(p) : s[i + k - 1] = p[k]

\* s.find(p, i - 1) + 1: the first index from i where p occurs, 0 if none
FindFrom(s, p, i) ==
    LET hits == {j \in i..(Len(s) - Len(p) + 1) : MatchAt(s, p, j)}
    IN  IF hits = {} THEN 0
        ELSE CHOOSE j \in hits : \A k \in hits : j <= k

\* p in s
Contains(s, p) == FindFrom(s, p, 1) # 0

RECURSIVE ReplaceFrom(_, _, _, _)
ReplaceFrom(s, old, new, i) ==
    LET j == FindFrom(s, old, i)
    IN  IF j = 0 THEN SubSeq(s, i, Len(s))
        ELSE SubSeq(s, i, j - 1) \o new \o ReplaceFrom(s, old, new, j + Len(old))

\* s.replace(old, new) for a non-empty old: every non-overlapping occurrence,
\* left to right.
str_replace(s, old, new) == ReplaceFrom(s, old, new, 1)

RECURSIVE Join(_)
Join(ss) == IF ss = <<>> THEN <<>> ELSE Head(ss) \o Join(Tail(ss))

(***************************************************************************)
(* Numbers.                                                                *)
(***************************************************************************)
Abs(x) == IF x < 0 THEN -x ELSE x

RECURSIVE Gcd(_, _)
Gcd(a, b) == IF b = 0 THEN a ELSE Gcd(b, a % b)

Int_(n) == [ty |-> "int", n |-> n, d |-> 1]
Rat(ty, n, d) ==
    LET g == Gcd(Abs(n), d)
    IN  [ty |-> ty, n |-> n \div g, d |-> d \div g]
Flt(n, d) == Rat("float", n, d)
NoValue == [ty |-> "none", n |-> 0, d |-> 1]

IsNeg(v) == v.n < 0
IsZero(v) == v.n = 0
IsIntegral(v) == v.d = 1
InRange(v) == Abs(v.n) <= MaxMag /\ v.d <= MaxMag


(***************************************************************************)
(* The bindings map: a dict, kept as the sequence of its items in          *)
(* insertion order, [key |-> str, value |-> v].  A value is a number or    *)
(* NotANumber (None, a str: anything is_number rejects).                   *)
(***************************************************************************)
NotANumber == [ty |-> "str", n |-> 0, d |-> 1]

Keys(unknown_value) == [i \in 1..Len(unknown_value) |-> unknown_value[i].key]

\* is_word with \w in place of [a-zA-Z]
is_word_alnum(word) ==
    Len(word) > 0 /\ \A i \in 1..Len(word) : word[i] \in AsciiLetters \cup Digits

\* is_word: re.match(r'^[a-zA-Z]+$', word)
is_word(word) == Len(word) > 0 /\ \A i \in 1..Len(word) : word[i] \in AsciiLetters

\* is_number: isinstance(value, (int, float))
is_number(value) == value.ty \in {"int", "float"}

(***************************************************************************)
(* str(value) of a bound number: an int prints its digits, a float prints  *)
(* its integer part, a point and its decimals (repr is the short decimal   *)
(* for the halves and tenths the model binds).                             *)
(***************************************************************************)
DigitChar(k) == <<"0", "1", "2", "3", "4", "5", "6", "7", "8", "9">>[k + 1]

RECURSIVE NatStr(_)
NatStr(n) == IF n < 10 THEN <<DigitChar(n)>>
             ELSE NatStr(n \div 10) \o <<DigitChar(n % 10)>>

RECURSIVE FracStr(_, _)
FracStr(r, d) == IF r = 0 THEN <<>>
                 ELSE <<DigitChar((r * 10) \div d)>> \o FracStr((r * 10) % d, d)

PyStr(v) ==
    LET sign == IF v.n < 0 THEN <<"-">> ELSE <<>>
        a == Abs(v.n)
    IN  IF v.ty = "int" THEN sign \o NatStr(a)
        ELSE sign \o NatStr(a \div v.d) \o <<".">>
                  \o (IF a % v.d = 0 THEN <<"0">> ELSE FracStr(a % v.d, v.d))

(***************************************************************************)
(* Well-formedness validator.                                              *)
(***************************************************************************)
RECURSIVE ParenScan(_, _, _)
ParenScan(s, i, stack) ==
    IF i > Len(s) THEN Len(stack) = 0
    ELSE IF s[i] = "(" THEN ParenScan(s, i + 1, Append(stack, "("))
    ELSE IF s[i] = ")" THEN
        IF stack = <<>> THEN FALSE
        ELSE IF stack[Len(stack)] = "(" THEN
            ParenScan(s, i + 1, SubSeq(stack, 1, Len(stack) - 1))
        ELSE FALSE
    ELSE ParenScan(s, i + 1, stack)

\* check_parentheses that only compares the numbers of "(" and ")"
check_parentheses_counting(formula_string) ==
    Cardinality({i \in 1..Len(formula_string) : formula_string[i] = "("})
        = Cardinality({i \in 1..Len(formula_string) : formula_string[i] = ")"})

check_parentheses(formula_string) == ParenScan(formula_string, 1, <<>>)

\* The class without 0-9
PatternClassNoDigits ==
    {"-", "+", "*", "/", "(", ")", ".", "x", "y", "z", ",", "s", "q", "r", "t",
     "l", "o", "g", "i", "n", "c", "a", "f", "e", "b", "m", "d", "P", "I", "p",
     "w", " ", "\t", "\n"}

\* The character class of the pattern before the unknowns are added:
\* [-+*/()0-9.xyz,sqrtlogsincostanfloorceilfactorialabsmodPIpow\s]
PatternClass ==
    {"-", "+", "*", "/", "(", ")", ".", "x", "y", "z", ","}
    \cup Digits
    \cup {"s", "q", "r", "t", "l", "o", "g", "i", "n", "c", "a", "f",
          "e", "b", "m", "d", "P", "I", "p", "w"}
    \cup WhiteSpace

\* The class once ''.join(unknowns) is inserted into it.  The keys the model
\* binds are letters and digits, which stand for themselves in a class.
AllowedChars(unknowns) == PatternClass \cup Range(Join(unknowns))

\* formula == '' without formula.isspace()
IsBlankEmptyOnly(formula) == formula = <<>>

\* formula.isspace() or formula == ''
IsBlank(formula) == \A i \in 1..Len(formula) : formula[i] \in WhiteSpace

\* is_well_formed: "Parentheses are not matched" and "Formula is empty" are
\* the ValueErrors it raises, "True" and "False" its returns.
is_well_formed(formula, unknowns) ==
    IF ~check_parentheses(formula) THEN "Parentheses are not matched"
    ELSE IF IsBlank(formula) THEN "Formula is empty"
    ELSE IF \A i \in 1..Len(formula) : formula[i] \in AllowedChars(unknowns)
         THEN "True"
    ELSE "False"

(***************************************************************************)
(* Formula normalizer: the keyword rewrites, in the order of the source,   *)
(* then the substitution of the bound variables.                           *)
(***************************************************************************)
MathDot == <<"m", "a", "t", "h", ".">>
Rewrites ==
    << <<<<"P", "I">>, MathDot \o <<"p", "i">>>>,
       <<<<"s", "q", "r", "t", "(">>, MathDot \o <<"s", "q", "r", "t", "(">>>>,
       <<<<"l", "o", "g", "(">>, MathDot \o <<"l", "o", "g", "(">>>>,
       <<<<"s", "i", "n", "(">>, MathDot \o <<"s", "i", "n", "(">>>>,
       <<<<"c", "o", "s", "(">>, MathDot \o <<"c", "o", "s", "(">>>>,
       <<<<"t", "a", "n", "(">>, MathDot \o <<"t", "a", "n", "(">>>>,
       <<<<"m", "o", "d", "(">>, MathDot \o <<"f", "m", "o", "d", "(">>>>,
       <<<<"p", "o", "w", "(">>, MathDot \o <<"p", "o", "w", "(">>>>,
       <<<<"f", "a", "c", "t", "o", "r", "i", "a", "l", "(">>,
         MathDot \o <<"f", "a", "c", "t", "o", "r", "i", "a", "l", "(">>>>,
       <<<<"a", "b", "s", "(">>, MathDot \o <<"f", "a", "b", "s", "(">>>>,
       <<<<"f", "l", "o", "o", "r", "(">>, MathDot \o <<"f", "l", "o", "o", "r", "(">>>>,
       <<<<"c", "e", "i", "l", "(">>, MathDot \o <<"c", "e", "i", "l", "(">>>> >>

RECURSIVE RewriteFrom(_, _)
RewriteFrom(formula, k) ==
    IF k > Len(Rewrites) THEN formula
    ELSE RewriteFrom(str_replace(formula, Rewrites[k][1], Rewrites[k][2]), k + 1)

\* formula = input_string with every keyword rewritten
RewriteKeywords(input_string) == RewriteFrom(input_string, 1)

\* The replacement made in the original text, the rewrites lost
SubstituteInOriginal(formula, input_string, item) ==
    IF Contains(input_string, item.key)
    THEN str_replace(input_string, item.key, <<"(">> \o PyStr(item.value) \o <<")">>)
    ELSE formula

\* The value written without its parentheses
SubstituteBare(formula, input_string, item) ==
    IF Contains(input_string, item.key)
    THEN str_replace(formula, item.key, PyStr(item.value))
    ELSE formula

\* One pass of the substitution loop for an item that passed is_word and
\* is_number: the key is looked for in the ORIGINAL text, replaced in the
\* rewritten one.
SubstituteOne(formula, input_string, item) ==
    IF Contains(input_string, item.key)
    THEN str_replace(formula, item.key, <<"(">> \o PyStr(item.value) \o <<")">>)
    ELSE formula

\* The loop over unknown_value.items(): the text after the last pass, or the
\* ValueError of the first item that is not a word or not a number.
RECURSIVE SubstituteFrom(_, _, _, _)
SubstituteFrom(formula, input_string, unknown_value, k) ==
    IF k > Len(unknown_value) THEN [ok |-> TRUE, formula |-> formula, why |-> "none"]
    ELSE IF ~is_word(unknown_value[k].key)
         THEN [ok |-> FALSE, formula |-> formula, why |-> "key"]
    ELSE IF ~is_number(unknown_value[k].value)
         THEN [ok |-> FALSE, formula |-> formula, why |-> "value"]
    ELSE SubstituteFrom(SubstituteOne(formula, input_string, unknown_value[k]),
                        input_string, unknown_value, k + 1)

\* The loop left after its first item
SubstituteFirstOnly(formula, input_string, unknown_value) ==
    SubstituteFrom(formula, input_string,
                   SubSeq(unknown_value, 1, IF Len(unknown_value) = 0 THEN 0 ELSE 1), 1)

Substitute(formula, input_string, unknown_value) ==
    SubstituteFrom(formula, input_string, unknown_value, 1)

(***************************************************************************)
(* Tokens of ast.parse(expression, mode='eval') on the characters the      *)
(* validator lets through.  A token is [k, op, id, v]: k is "num" (v its   *)
(* value), "name" (id its text), "op" (op its text) or "ellipsis".         *)
(* Lexing ends "ok", "syntax" (SyntaxError) or "outofmodel" (a lexeme the  *)
(* model does not give a value to: a keyword, an exponent, a number        *)
(* beyond MaxMag).                                                         *)
(***************************************************************************)
PyKeywords ==
    {<<"F", "a", "l", "s", "e">>,
     <<"N", "o", "n", "e">>,
     <<"T", "r", "u", "e">>,
     <<"a", "n", "d">>,
     <<"a", "s">>,
     <<"a", "s", "s", "e", "r", "t">>,
     <<"a", "s", "y", "n", "c">>,
     <<"a", "w", "a", "i", "t">>,
     <<"b", "r", "e", "a", "k">>,
     <<"c", "l", "a", "s", "s">>,
     <<"c", "o", "n", "t", "i", "n", "u", "e">>,
     <<"d", "e", "f">>,
     <<"d", "e", "l">>,
     <<"e", "l", "i", "f">>,
     <<"e", "l", "s", "e">>,
     <<"e", "x", "c", "e", "p", "t">>,
     <<"f", "i", "n", "a", "l", "l", "y">>,
     <<"f", "o", "r">>,
     <<"f", "r", "o", "m">>,
     <<"g", "l", "o", "b", "a", "l">>,
     <<"i", "f">>,
     <<"i", "m", "p", "o", "r", "t">>,
     <<"i", "n">>,
     <<"i", "s">>,
     <<"l", "a", "m", "b", "d", "a">>,
     <<"n", "o", "n", "l", "o", "c", "a", "l">>,
     <<"n", "o", "t">>,
     <<"o", "r">>,
     <<"p", "a", "s", "s">>,
     <<"r", "a", "i", "s", "e">>,
     <<"r", "e", "t", "u", "r", "n">>,
     <<"t", "r", "y">>,
     <<"w", "h", "i", "l", "e">>,
     <<"w", "i", "t", "h">>,
     <<"y", "i", "e", "l", "d">>}

Tok(k, op, id, v) == [k |-> k, op |-> op, id |-> id, v |-> v]
OpTok(op) == Tok("op", op, <<>>, NoValue)
EndTok == Tok("end", "", <<>>, NoValue)

\* The first index from i on whose character is not in set.
RECURSIVE RunEnd(_, _, _)
RunEnd(s, i, set) ==
    IF i > Len(s) \/ s[i] \notin set THEN i ELSE RunEnd(s, i + 1, set)

HexDigitVal(c) ==
    CASE c \in Digits -> CHOOSE k \in 0..9 : DigitChar(k) = c
      [] c \in {"a", "A"} -> 10
      [] c \in {"b", "B"} -> 11
      [] c \in {"c", "C"} -> 12
      [] c \in {"d", "D"} -> 13
      [] c \in {"e", "E"} -> 14
      [] OTHER -> 15

\* The value of the digits s[i..j-1] in the base, or MaxMag + 1 once it is
\* beyond MaxMag.
RECURSIVE DigitsVal(_, _, _, _, _)
DigitsVal(s, i, j, base, acc) ==
    IF i >= j THEN acc
    ELSE IF acc > MaxMag THEN MaxMag + 1
    ELSE DigitsVal(s, i + 1, j, base, acc * base + HexDigitVal(s[i]))

RECURSIVE Pow10(_)
Pow10(k) == IF k = 0 THEN 1 ELSE IF k > 4 THEN MaxMag + 1 ELSE 10 * Pow10(k - 1)

\* verify_end_of_number: what follows a number literal at index e.
NumberEnd(s, e) ==
    IF e > Len(s) THEN "ok"
    ELSE IF s[e] \in {"e", "E", "j", "J", "a", "f", "i", "n", "o"} THEN "outofmodel"
    ELSE IF s[e] \in AsciiLetters THEN "syntax"
    ELSE "ok"

LexResult(st, tok, next) == [st |-> st, tok |-> tok, next |-> next]

\* A number literal starting at s[i], a digit or a point followed by a digit.
LexNumber(s, i) ==
    LET j == RunEnd(s, i, Digits)
        isHex == s[i] = "0" /\ j = i + 1 /\ j <= Len(s) /\ s[j] \in {"x", "X"}
        isOther == s[i] = "0" /\ j = i + 1 /\ j <= Len(s) /\ s[j] \in {"o", "O", "b", "B"}
        h == RunEnd(s, i + 2, Digits \cup HexLetters)
        hasPoint == j <= Len(s) /\ s[j] = "."
        m == RunEnd(s, j + 1, Digits)
        ip == DigitsVal(s, i, j, 10, 0)
        fp == DigitsVal(s, j + 1, m, 10, 0)
        scale == Pow10(m - j - 1)
        leadingZero == s[i] = "0" /\ ip # 0
    IN  IF isOther THEN LexResult("outofmodel", EndTok, i)
        ELSE IF isHex THEN
            IF h = i + 2 THEN LexResult("syntax", EndTok, i)
            ELSE IF NumberEnd(s, h) # "ok" THEN LexResult(NumberEnd(s, h), EndTok, i)
            ELSE IF DigitsVal(s, i + 2, h, 16, 0) > MaxMag
                 THEN LexResult("outofmodel", EndTok, i)
            ELSE LexResult("ok", Tok("num", "", <<>>, Int_(DigitsVal(s, i + 2, h, 16, 0))), h)
        ELSE IF hasPoint THEN
            IF NumberEnd(s, m) # "ok" THEN LexResult(NumberEnd(s, m), EndTok, i)
            ELSE IF ip > MaxMag \/ fp > MaxMag \/ scale > MaxMag
                    \/ ip * scale + fp > MaxMag
                 THEN LexResult("outofmodel", EndTok, i)
            ELSE LexResult("ok", Tok("num", "", <<>>, Flt(ip * scale + fp, scale)), m)
        ELSE IF NumberEnd(s, j) # "ok" THEN LexResult(NumberEnd(s, j), EndTok, i)
        ELSE IF leadingZero THEN LexResult("syntax", EndTok, i)
        ELSE IF ip > MaxMag THEN LexResult("outofmodel", EndTok, i)
        ELSE LexResult("ok", Tok("num", "", <<>>, Int_(ip)), j)

\* The token starting at s[i], which is no white space.
LexOne(s, i) ==
    LET c == s[i]
        nxt == IF i < Len(s) THEN s[i + 1] ELSE ""
        nameEnd == RunEnd(s, i, AsciiLetters \cup Digits)
        id == SubSeq(s, i, nameEnd - 1)
    IN  IF c \in Digits \/ (c = "." /\ nxt \in Digits) THEN LexNumber(s, i)
        ELSE IF c \in AsciiLetters THEN
            IF id \in PyKeywords THEN LexResult("outofmodel", EndTok, i)
            ELSE LexResult("ok", Tok("name", "", id, NoValue), nameEnd)
        ELSE IF c = "." THEN
            IF MatchAt(s, <<".", ".", ".">>, i)
            THEN LexResult("ok", Tok("ellipsis", "", <<>>, NoValue), i + 3)
            ELSE LexResult("ok", OpTok("."), i + 1)
        ELSE IF c = "*" /\ nxt = "*" THEN LexResult("ok", OpTok("**"), i + 2)
        ELSE IF c = "/" /\ nxt = "/" THEN LexResult("ok", OpTok("//"), i + 2)
        ELSE IF c \in {"+", "-", "*", "/", "(", ")", ","} THEN LexResult("ok", OpTok(c), i + 1)
        ELSE LexResult("outofmodel", EndTok, i)

RECURSIVE LexFrom(_, _, _)
LexFrom(s, i, acc) ==
    IF i > Len(s) THEN [st |-> "ok", toks |-> acc]
    ELSE IF s[i] \in {" ", "\t"} THEN LexFrom(s, i + 1, acc)
    ELSE LET r == LexOne(s, i)
         IN  IF r.st # "ok" THEN [st |-> r.st, toks |-> acc]
             ELSE LexFrom(s, r.next, Append(acc, r.tok))

\* Leading white space is an IndentationError, a SyntaxError.
Tokenize(s) ==
    IF Len(s) > 0 /\ s[1] \in {" ", "\t"} THEN [st |-> "syntax", toks |-> <<>>]
    ELSE LexFrom(s, 1, <<>>)

(***************************************************************************)
(* The parser: Python's expression grammar on those tokens, giving the     *)
(* ast nodes SafeEvaluator walks.  A parse is [st, node, pos]: st "ok" or  *)
(* "syntax", pos the index of the first token not consumed.                *)
(*   sum:     sum ('+'|'-') term | term                                    *)
(*   term:    term ('*'|'/'|'//') factor | factor                          *)
(*   factor:  ('+'|'-') factor | power                                     *)
(*   power:   primary '**' factor | primary                                *)
(*   primary: primary '.' NAME | primary '(' args ')' | atom               *)
(*   atom:    NAME | NUMBER | '...' | '(' ')' | '(' elements ')'           *)
(***************************************************************************)
NoNode == [t |-> "None"]
Parsed(node, pos) == [st |-> "ok", node |-> node, pos |-> pos]
SyntaxErr == [st |-> "syntax", node |-> NoNode, pos |-> 0]

TokAt(toks, i) == IF i <= Len(toks) THEN toks[i] ELSE EndTok
IsOp(tok, o) == tok.k = "op" /\ tok.op = o

BinOpName(o) ==
    CASE o = "+" -> "Add" [] o = "-" -> "Sub" [] o = "*" -> "Mult"
      [] o = "/" -> "Div" [] o = "//" -> "FloorDiv" [] OTHER -> "Pow"

BinOpNode(o, left, right) ==
    [t |-> "BinOp", op |-> BinOpName(o), left |-> left, right |-> right]

\* The grammar is one recursive operator, Grammar(rule, a): rule names the
\* production and a is the tuple of its arguments.  ParseSum, ParseTerm, ...
\* apply it; ParseSumRule, ParseTermRule, ... are the productions.
RECURSIVE Grammar(_, _)
ParseSum(toks, i) == Grammar("ParseSum", <<toks, i>>)
SumLoop(toks, left, i) == Grammar("SumLoop", <<toks, left, i>>)
ParseTerm(toks, i) == Grammar("ParseTerm", <<toks, i>>)
TermLoop(toks, left, i) == Grammar("TermLoop", <<toks, left, i>>)
ParseFactor(toks, i) == Grammar("ParseFactor", <<toks, i>>)
ParsePower(toks, i) == Grammar("ParsePower", <<toks, i>>)
ParsePrimary(toks, i) == Grammar("ParsePrimary", <<toks, i>>)
TrailerLoop(toks, node, i) == Grammar("TrailerLoop", <<toks, node, i>>)
ParseAtom(toks, i) == Grammar("ParseAtom", <<toks, i>>)
ParseElements(toks, i, closer, count, comma, first) == Grammar("ParseElements", <<toks, i, closer, count, comma, first>>)
ParseArgs(toks, i, seenKw, acc) == Grammar("ParseArgs", <<toks, i, seenKw, acc>>)

ParseSumRule(toks, i) ==
    LET l == ParseTerm(toks, i)
    IN  IF l.st # "ok" THEN l ELSE SumLoop(toks, l.node, l.pos)

SumLoopRule(toks, left, i) ==
    LET tok == TokAt(toks, i)
    IN  IF IsOp(tok, "+") \/ IsOp(tok, "-") THEN
            LET r == ParseTerm(toks, i + 1)
            IN  IF r.st # "ok" THEN r
                ELSE SumLoop(toks, BinOpNode(tok.op, left, r.node), r.pos)
        ELSE Parsed(left, i)

ParseTermRule(toks, i) ==
    LET l == ParseFactor(toks, i)
    IN  IF l.st # "ok" THEN l ELSE TermLoop(toks, l.node, l.pos)

TermLoopRule(toks, left, i) ==
    LET tok == TokAt(toks, i)
    IN  IF IsOp(tok, "*") \/ IsOp(tok, "/") \/ IsOp(tok, "//") THEN
            LET r == ParseFactor(toks, i + 1)
            IN  IF r.st # "ok" THEN r
                ELSE TermLoop(toks, BinOpNode(tok.op, left, r.node), r.pos)
        ELSE Parsed(left, i)

\* A sign taken with the primary that follows it, before any "**"
ParseFactorSignFirst(toks, i) ==
    IF IsOp(TokAt(toks, i), "+") \/ IsOp(TokAt(toks, i), "-") THEN
        LET r == ParsePrimary(toks, i + 1)
            signed == [t |-> "UnaryOp",
                       op |-> IF TokAt(toks, i).op = "-" THEN "USub" ELSE "UAdd",
                       operand |-> r.node]
        IN  IF r.st # "ok" THEN r
            ELSE IF IsOp(TokAt(toks, r.pos), "**") THEN
                LET e == ParseFactor(toks, r.pos + 1)
                IN  IF e.st # "ok" THEN e
                    ELSE Parsed(BinOpNode("**", signed, e.node), e.pos)
            ELSE Parsed(signed, r.pos)
    ELSE ParsePower(toks, i)

ParseFactorRule(toks, i) ==
    LET tok == TokAt(toks, i)
    IN  IF IsOp(tok, "+") \/ IsOp(tok, "-") THEN
            LET r == ParseFactor(toks, i + 1)
            IN  IF r.st # "ok" THEN r
                ELSE Parsed([t |-> "UnaryOp",
                             op |-> IF tok.op = "-" THEN "USub" ELSE "UAdd",
                             operand |-> r.node], r.pos)
        ELSE ParsePower(toks, i)

ParsePowerRule(toks, i) ==
    LET l == ParsePrimary(toks, i)
    IN  IF l.st # "ok" THEN l
        ELSE IF IsOp(TokAt(toks, l.pos), "**") THEN
            LET r == ParseFactor(toks, l.pos + 1)
            IN  IF r.st # "ok" THEN r
                ELSE Parsed(BinOpNode("**", l.node, r.node), r.pos)
        ELSE l

ParsePrimaryRule(toks, i) ==
    LET a == ParseAtom(toks, i)
    IN  IF a.st # "ok" THEN a ELSE TrailerLoop(toks, a.node, a.pos)

TrailerLoopRule(toks, node, i) ==
    LET tok == TokAt(toks, i)
    IN  IF IsOp(tok, ".") THEN
            IF TokAt(toks, i + 1).k = "name"
            THEN TrailerLoop(toks, [t |-> "Attribute", value |-> node,
                                    attr |-> TokAt(toks, i + 1).id], i + 2)
            ELSE SyntaxErr
        ELSE IF IsOp(tok, "(") THEN
            LET r == ParseArgs(toks, i + 1, FALSE, <<>>)
            IN  IF r.st # "ok" THEN r
                ELSE TrailerLoop(toks, [t |-> "Call", func |-> node,
                                        args |-> r.node], r.pos)
        ELSE Parsed(node, i)

ParseAtomRule(toks, i) ==
    LET tok == TokAt(toks, i)
    IN  IF tok.k = "name" THEN Parsed([t |-> "Name", id |-> tok.id], i + 1)
        ELSE IF tok.k = "num" THEN Parsed([t |-> "Constant", v |-> tok.v], i + 1)
        ELSE IF tok.k = "ellipsis"
             THEN Parsed([t |-> "Constant", v |-> [ty |-> "ellipsis", n |-> 0, d |-> 1]], i + 1)
        ELSE IF IsOp(tok, "(") THEN ParseElements(toks, i + 1, ")", 0, FALSE, NoNode)
        ELSE SyntaxErr

\* The elements up to the closer: ")" for a parenthesised form or a tuple
\* display, "end" for the whole input (where no element may be starred).
\* count elements are read, first is the first of them or a Starred.
ParseElementsRule(toks, i, closer, count, comma, first) ==
    LET tok == TokAt(toks, i)
        closed == IF closer = ")" THEN IsOp(tok, ")") ELSE tok.k = "end"
        after == IF closer = ")" THEN i + 1 ELSE i
        starred == IsOp(tok, "*") /\ closer = ")"
        e == ParseSum(toks, IF starred THEN i + 1 ELSE i)
        elem == IF starred THEN [t |-> "Starred"] ELSE e.node
        next == TokAt(toks, e.pos)
        nextClosed == IF closer = ")" THEN IsOp(next, ")") ELSE next.k = "end"
    IN  IF closed THEN
            IF count = 0 THEN
                IF closer = ")" THEN Parsed([t |-> "Tuple"], after) ELSE SyntaxErr
            ELSE IF count = 1 /\ ~comma THEN
                IF first.t = "Starred" THEN SyntaxErr ELSE Parsed(first, after)
            ELSE Parsed([t |-> "Tuple"], after)
        ELSE IF count > 0 /\ ~comma THEN SyntaxErr
        ELSE IF e.st # "ok" THEN SyntaxErr
        ELSE IF IsOp(next, ",")
             THEN ParseElements(toks, e.pos + 1, closer, count + 1, TRUE,
                                IF count = 0 THEN elem ELSE first)
        ELSE IF nextClosed
             THEN ParseElements(toks, e.pos, closer, count + 1, comma,
                                IF count = 0 THEN elem ELSE first)
        ELSE SyntaxErr

\* The arguments of a call, from the token after "(" or after a comma.  The
\* node of the result is the sequence node.args: the positional arguments and
\* the Starred ones; a "**" argument goes to node.keywords, which the
\* evaluator never reads.
ParseArgsRule(toks, i, seenKw, acc) ==
    LET tok == TokAt(toks, i)
        kw == IsOp(tok, "**")
        starred == IsOp(tok, "*")
        e == ParseSum(toks, IF kw \/ starred THEN i + 1 ELSE i)
        acc2 == IF kw THEN acc
                ELSE IF starred THEN Append(acc, [t |-> "Starred"])
                ELSE Append(acc, e.node)
        next == TokAt(toks, e.pos)
    IN  IF IsOp(tok, ")") THEN Parsed(acc, i + 1)
        ELSE IF seenKw /\ ~kw THEN SyntaxErr
        ELSE IF e.st # "ok" THEN SyntaxErr
        ELSE IF IsOp(next, ",") THEN ParseArgs(toks, e.pos + 1, seenKw \/ kw, acc2)
        ELSE IF IsOp(next, ")") THEN Parsed(acc2, e.pos + 1)
        ELSE SyntaxErr

\* The whole input: its elements up to the end, as [st, node].
ParseInputRule(toks) ==
    LET r == ParseElements(toks, 1, "end", 0, FALSE, NoNode)
    IN  [st |-> r.st, node |-> r.node]

Grammar(rule, a) ==
    CASE rule = "ParseInput" -> ParseInputRule(a[1])
      [] rule = "ParseSum" -> ParseSumRule(a[1], a[2])
      [] rule = "SumLoop" -> SumLoopRule(a[1], a[2], a[3])
      [] rule = "ParseTerm" -> ParseTermRule(a[1], a[2])
      [] rule = "TermLoop" -> TermLoopRule(a[1], a[2], a[3])
      [] rule = "ParseFactor" -> ParseFactorRule(a[1], a[2])
      [] rule = "ParsePower" -> ParsePowerRule(a[1], a[2])
      [] rule = "ParsePrimary" -> ParsePrimaryRule(a[1], a[2])
      [] rule = "TrailerLoop" -> TrailerLoopRule(a[1], a[2], a[3])
      [] rule = "ParseAtom" -> ParseAtomRule(a[1], a[2])
      [] rule = "ParseElements" -> ParseElementsRule(a[1], a[2], a[3], a[4], a[5], a[6])
      [] rule = "ParseArgs" -> ParseArgsRule(a[1], a[2], a[3], a[4])

\* ast.parse(expression, mode='eval').body: [st, node], st "ok", "syntax" or
\* "outofmodel".
ParseTokens(lx) ==
    IF lx.st # "ok" THEN [st |-> lx.st, node |-> NoNode]
    ELSE Grammar("ParseInput", <<lx.toks>>)

Parse(expression) == ParseTokens(Tokenize(expression))

(***************************************************************************)
(* The tables of the evaluator.  An entry names the library function it    *)
(* holds; ApplyOperator and ApplyFunction below give each its meaning.     *)
(***************************************************************************)
SAFE_OPERATORS ==
    {[op |-> "Add", fn |-> "operator.add"], [op |-> "Sub", fn |-> "operator.sub"],
     [op |-> "Mult", fn |-> "operator.mul"], [op |-> "Div", fn |-> "operator.truediv"],
     [op |-> "Pow", fn |-> "operator.pow"], [op |-> "USub", fn |-> "operator.neg"],
     [op |-> "UAdd", fn |-> "operator.pos"]}

SAFE_FUNCTIONS ==
    {[name |-> <<"m", "a", "t", "h", ".", "s", "q", "r", "t">>, fn |-> "math.sqrt"],
     [name |-> <<"m", "a", "t", "h", ".", "l", "o", "g">>, fn |-> "math.log"],
     [name |-> <<"m", "a", "t", "h", ".", "s", "i", "n">>, fn |-> "math.sin"],
     [name |-> <<"m", "a", "t", "h", ".", "c", "o", "s">>, fn |-> "math.cos"],
     [name |-> <<"m", "a", "t", "h", ".", "t", "a", "n">>, fn |-> "math.tan"],
     [name |-> <<"m", "a", "t", "h", ".", "f", "m", "o", "d">>, fn |-> "math.fmod"],
     [name |-> <<"m", "a", "t", "h", ".", "p", "o", "w">>, fn |-> "math.pow"],
     [name |-> <<"m", "a", "t", "h", ".", "f", "a", "c", "t", "o", "r", "i", "a", "l">>, fn |-> "math.factorial"],
     [name |-> <<"m", "a", "t", "h", ".", "f", "a", "b", "s">>, fn |-> "math.fabs"],
     [name |-> <<"m", "a", "t", "h", ".", "f", "l", "o", "o", "r">>, fn |-> "math.floor"],
     [name |-> <<"m", "a", "t", "h", ".", "c", "e", "i", "l">>, fn |-> "math.ceil"]}

\* math.pi is the double nearest to pi; the model's float for it is 22/7.
MathPi == Flt(22, 7)
SAFE_CONSTANTS == {[name |-> <<"m", "a", "t", "h", ".", "p", "i">>, value |-> MathPi]}

\* SafeEvaluator.__init__: the instance refers to the three tables.
SafeEvaluator ==
    [operators |-> SAFE_OPERATORS, functions |-> SAFE_FUNCTIONS,
     constants |-> SAFE_CONSTANTS]

Has(table, field, key) == \E e \in table : e[field] = key
Lookup(table, field, key) == CHOOSE e \in table : e[field] = key

(***************************************************************************)
(* Results of an evaluation: a value, or the exception raised and why.     *)
(***************************************************************************)
Ok(v) == [ok |-> TRUE, v |-> v, exc |-> "", why |-> ""]
Err(exc, why) == [ok |-> FALSE, v |-> NoValue, exc |-> exc, why |-> why]
OutOfModel == Err("OutOfModel", "")
DomainError == Err("ValueError", "math domain error")

\* A value the model holds, or OutOfModel.
Checked(v) == IF InRange(v) THEN Ok(v) ELSE OutOfModel

ResTy(a, b) == IF a.ty = "int" /\ b.ty = "int" THEN "int" ELSE "float"

\* base^e for e >= 0 and base >= 2, or MaxMag + 1 once beyond MaxMag.
RECURSIVE NatPow(_, _, _)
NatPow(base, e, acc) ==
    IF e = 0 THEN acc
    ELSE IF acc > MaxMag THEN MaxMag + 1
    ELSE NatPow(base, e - 1, acc * base)

\* |base|^e for e >= 0, capped likewise.
CapPow(base, e) ==
    IF e = 0 THEN 1
    ELSE IF base = 0 THEN 0
    ELSE IF base = 1 THEN 1
    ELSE NatPow(base, e, 1)

\* a^k for an integer k, as a number of type ty (a # 0 when k < 0).
RatPow(ty, a, k) ==
    LET e == Abs(k)
        pn == CapPow(Abs(a.n), e)
        pd == CapPow(a.d, e)
        neg == a.n < 0 /\ e % 2 = 1
        sn == IF neg THEN -1 ELSE 1
    IN  IF pn > MaxMag \/ pd > MaxMag THEN OutOfModel
        ELSE IF k >= 0 THEN Ok(Rat(ty, sn * pn, pd))
        ELSE Ok(Rat(ty, sn * pd, pn))

\* a^b for floats once the error cases are gone: exact for an integral b and
\* for the bases 0 and 1.
FloatPow(a, b) ==
    IF IsIntegral(b) THEN RatPow("float", a, b.n)
    ELSE IF a.n = 0 THEN Ok(Flt(0, 1))
    ELSE IF a.n = a.d THEN Ok(Flt(1, 1))
    ELSE OutOfModel

\* operator.pow: int ** int is an int for an exponent >= 0; 0 to a negative
\* power is a ZeroDivisionError; a negative base to a fractional power is a
\* complex number.
OperatorPow(a, b) ==
    IF a.n = 0 /\ b.n < 0 THEN Err("ZeroDivisionError", "Pow")
    ELSE IF a.ty = "int" /\ b.ty = "int" /\ b.n >= 0 THEN RatPow("int", a, b.n)
    ELSE IF a.n < 0 /\ ~IsIntegral(b) THEN OutOfModel
    ELSE FloatPow(a, b)

\* math.pow: a float; its error cases are "math domain error".
MathPow(a, b) ==
    IF a.n = 0 /\ b.n < 0 THEN DomainError
    ELSE IF a.n < 0 /\ ~IsIntegral(b) THEN DomainError
    ELSE FloatPow(a, b)

\* The binary operators named by the table.
ApplyOperator(fn, a, b) ==
    CASE fn = "operator.add" ->
            Checked(Rat(ResTy(a, b), a.n * b.d + b.n * a.d, a.d * b.d))
      [] fn = "operator.sub" ->
            Checked(Rat(ResTy(a, b), a.n * b.d - b.n * a.d, a.d * b.d))
      [] fn = "operator.mul" ->
            Checked(Rat(ResTy(a, b), a.n * b.n, a.d * b.d))
      [] fn = "operator.truediv" ->
            IF b.n = 0 THEN Err("ZeroDivisionError", "Div")
            ELSE Checked(Flt((IF b.n < 0 THEN -1 ELSE 1) * a.n * b.d, a.d * Abs(b.n)))
      [] fn = "operator.pow" -> OperatorPow(a, b)
      [] OTHER -> Err("TypeError", "")

\* The unary operators named by the table.
ApplyUnary(fn, a) ==
    CASE fn = "operator.neg" -> Ok([ty |-> a.ty, n |-> -a.n, d |-> a.d])
      [] fn = "operator.pos" -> Ok(a)
      [] OTHER -> Err("TypeError", "")

RECURSIVE RootFrom(_, _)
RootFrom(n, k) == IF k * k >= n THEN k ELSE RootFrom(n, k + 1)
IsSquare(n) == RootFrom(n, 0) * RootFrom(n, 0) = n

RECURSIVE FactFrom(_, _)
FactFrom(n, acc) ==
    IF n <= 1 THEN acc
    ELSE IF acc > MaxMag THEN MaxMag + 1
    ELSE FactFrom(n - 1, acc * n)

MathLog(args) ==
    LET x == args[1]
        base == args[2]
    IN  IF x.n <= 0 THEN DomainError
        ELSE IF Len(args) = 1 THEN
            IF x.n = x.d THEN Ok(Flt(0, 1)) ELSE OutOfModel
        ELSE IF base.n <= 0 THEN DomainError
        ELSE IF base.n = base.d THEN Err("ZeroDivisionError", "math.log")
        ELSE IF x.n = x.d THEN Ok(Flt(0, 1))
        ELSE IF x.n = base.n /\ x.d = base.d THEN Ok(Flt(1, 1))
        ELSE OutOfModel

\* The remainder operator in place of math.fmod
OperatorMod(a, b) ==
    IF b.n = 0 THEN Err("ZeroDivisionError", "Mod")
    ELSE Checked(Flt((IF a.n < 0 THEN -1 ELSE 1)
                       * ((Abs(a.n) * b.d) % (Abs(b.n) * a.d)),
                     a.d * b.d))

\* math.fmod, the function the table gives for 'mod': a zero divisor is a
\* math domain error.
MathFmod(a, b) ==
    IF b.n = 0 THEN DomainError
    ELSE Checked(Flt((IF a.n < 0 THEN -1 ELSE 1)
                       * ((Abs(a.n) * b.d) % (Abs(b.n) * a.d)),
                     a.d * b.d))

\* The functions named by the table, on the evaluated arguments.  A wrong
\* number of arguments, and a float given to factorial, is a TypeError.
ApplyFunction(fn, args) ==
    LET a == args[1]
        b == args[2]
        arity == IF fn \in {"math.fmod", "math.pow"} THEN {2}
                 ELSE IF fn = "math.log" THEN {1, 2} ELSE {1}
    IN  IF Len(args) \notin arity THEN Err("TypeError", "")
        ELSE CASE fn = "math.sqrt" ->
                    IF a.n < 0 THEN DomainError
                    ELSE IF IsSquare(a.n) /\ IsSquare(a.d)
                         THEN Ok(Flt(RootFrom(a.n, 0), RootFrom(a.d, 0)))
                    ELSE OutOfModel
               [] fn = "math.log" -> MathLog(args)
               [] fn = "math.sin" -> IF a.n = 0 THEN Ok(Flt(0, 1)) ELSE OutOfModel
               [] fn = "math.cos" -> IF a.n = 0 THEN Ok(Flt(1, 1)) ELSE OutOfModel
               [] fn = "math.tan" -> IF a.n = 0 THEN Ok(Flt(0, 1)) ELSE OutOfModel
               [] fn = "math.fmod" -> MathFmod(a, b)
               [] fn = "math.pow" -> MathPow(a, b)
               [] fn = "math.factorial" ->
                    IF a.ty # "int" THEN Err("TypeError", "")
                    ELSE IF a.n < 0 THEN Err("ValueError", "factorial")
                    ELSE Checked(Int_(FactFrom(a.n, 1)))
               [] fn = "math.fabs" -> Ok(Flt(Abs(a.n), a.d))
               [] fn = "math.floor" -> Ok(Int_(a.n \div a.d))
               [] fn = "math.ceil" -> Ok(Int_(-((-a.n) \div a.d)))
               [] OTHER -> Err("TypeError", "")

(***************************************************************************)
(* SafeEvaluator._eval_node and the name helpers, on an evaluator          *)
(* instance ev.                                                            *)
(***************************************************************************)
\* _get_attr_name_base: the dotted name of a Name or Attribute, <<>> for the
\* ValueError "Cannot determine attribute base".
RECURSIVE get_attr_name_base(_)
get_attr_name_base(node) ==
    IF node.t = "Name" THEN node.id
    ELSE IF node.t = "Attribute" THEN
        LET base == get_attr_name_base(node.value)
        IN  IF base = <<>> THEN <<>> ELSE base \o <<".">> \o node.attr
    ELSE <<>>

\* _get_attr_name of an Attribute node
get_attr_name(node) == get_attr_name_base(node)

\* _get_func_name: <<>> for the ValueErrors "Cannot determine function name"
\* and "Cannot determine attribute base".
get_func_name(node) ==
    IF node.t \in {"Attribute", "Name"} THEN get_attr_name_base(node) ELSE <<>>

\* A bare name evaluating to zero instead of raising
EvalNameAsZero(node) == Ok(Int_(0))

\* The ast.Name branch of _eval_node: raise NameError(f"name '{node.id}' is
\* not defined")
EvalName(node) == Err("NameError", "name")

RECURSIVE eval_node(_, _), EvalArgs(_, _, _, _), EvalArgsLastFirst(_, _, _, _)

\* The arguments evaluated from the last to the first
EvalArgsLastFirst(args, k, acc, ev) ==
    IF k > Len(args) THEN [ok |-> TRUE, vals |-> acc, err |-> Ok(NoValue)]
    ELSE LET r == eval_node(args[Len(args) + 1 - k], ev)
         IN  IF ~r.ok THEN [ok |-> FALSE, vals |-> acc, err |-> r]
             ELSE EvalArgsLastFirst(args, k + 1, <<r.v>> \o acc, ev)

\* args = [self._eval_node(arg) for arg in node.args]: the values, or the
\* first exception met.
EvalArgs(args, k, acc, ev) ==
    IF k > Len(args) THEN [ok |-> TRUE, vals |-> acc, err |-> Ok(NoValue)]
    ELSE LET r == eval_node(args[k], ev)
         IN  IF ~r.ok THEN [ok |-> FALSE, vals |-> acc, err |-> r]
             ELSE EvalArgs(args, k + 1, Append(acc, r.v), ev)

eval_node(node, ev) ==
    CASE node.t = "Constant" ->
            IF node.v.ty \in {"int", "float"} THEN Ok(node.v)
            ELSE Err("ValueError", "unsupported")
      [] node.t = "BinOp" ->
            LET left == eval_node(node.left, ev)
                right == eval_node(node.right, ev)
            IN  IF ~left.ok THEN left
                ELSE IF ~right.ok THEN right
                ELSE IF ~Has(ev.operators, "op", node.op)
                     THEN Err("ValueError", "unsupported")
                ELSE ApplyOperator(Lookup(ev.operators, "op", node.op).fn,
                                   left.v, right.v)
      [] node.t = "UnaryOp" ->
            LET operand == eval_node(node.operand, ev)
            IN  IF ~operand.ok THEN operand
                ELSE IF ~Has(ev.operators, "op", node.op)
                     THEN Err("ValueError", "unsupported")
                ELSE ApplyUnary(Lookup(ev.operators, "op", node.op).fn, operand.v)
      [] node.t = "Call" ->
            LET func_name == get_func_name(node.func)
                args == EvalArgs(node.args, 1, <<>>, ev)
            IN  IF func_name = <<>> THEN Err("ValueError", "unsupported")
                ELSE IF ~Has(ev.functions, "name", func_name)
                     THEN Err("NameError", "function")
                ELSE IF ~args.ok THEN args.err
                ELSE ApplyFunction(Lookup(ev.functions, "name", func_name).fn,
                                   args.vals)
      [] node.t = "Attribute" ->
            LET attr_name == get_attr_name(node)
            IN  IF attr_name = <<>> THEN Err("ValueError", "unsupported")
                ELSE IF Has(ev.constants, "name", attr_name)
                     THEN Ok(Lookup(ev.constants, "name", attr_name).value)
                ELSE Err("NameError", "attribute")
      [] node.t = "Name" -> EvalName(node)
      [] OTHER -> Err("ValueError", "unsupported")

\* SafeEvaluator.evaluate: a ZeroDivisionError is raised again with the
\* expression in its message, a SyntaxError or TypeError becomes the
\* ValueError "Invalid expression".
Reraise(r) ==
    IF r.ok THEN r
    ELSE IF r.exc = "ZeroDivisionError" THEN Err("ZeroDivisionError", r.why)
    ELSE IF r.exc = "TypeError" THEN Err("ValueError", "invalid expression")
    ELSE r

EvaluateTree(ev, tree) ==
    IF tree.st = "outofmodel" THEN OutOfModel
    ELSE IF tree.st = "syntax" THEN Err("ValueError", "invalid expression")
    ELSE Reraise(eval_node(tree.node, ev))

evaluate(ev, expression) == EvaluateTree(ev, Parse(expression))

\* safe_eval: the evaluation by the shared instance.
safe_eval(ev, expression) == evaluate(ev, expression)

(***************************************************************************)
(* The two regular expressions on math.sqrt( calls.                        *)
(***************************************************************************)
MathSqrtOpen == <<"m", "a", "t", "h", ".", "s", "q", "r", "t", "(">>

\* The first index from i on that holds c, 0 when there is none.
RECURSIVE IndexFrom(_, _, _)
IndexFrom(s, c, i) ==
    IF i > Len(s) THEN 0 ELSE IF s[i] = c THEN i ELSE IndexFrom(s, c, i + 1)

\* get_sqrt_value: matches[0] of r"math\.sqrt\((.+?)\)", <<>> for "".  The
\* group is not empty, holds no line break and ends before the first ")"
\* after its first character.
RECURSIVE SqrtValueFrom(_, _)
SqrtValueFrom(s, i) ==
    LET p == FindFrom(s, MathSqrtOpen, i)
        a == p + Len(MathSqrtOpen)
        c == IndexFrom(s, ")", a + 1)
    IN  IF p = 0 THEN <<>>
        ELSE IF a <= Len(s) /\ c # 0 /\ "\n" \notin Range(SubSeq(s, a, c - 1))
             THEN SubSeq(s, a, c - 1)
        ELSE SqrtValueFrom(s, p + 1)

get_sqrt_value(formula_string) == SqrtValueFrom(formula_string, 1)

\* _find_negative_sqrt: the matches of r'math\.sqrt\(([^)]+)\)' from index i
\* on, each argument evaluated alone.  [found, value, err]: found with the
\* negative value, or not found; err carries an exception the except clause
\* does not list.
RECURSIVE NegativeSqrtFrom(_, _, _)

\* One match, its argument ending before index c and evaluated to r.
NegativeSqrtMatch(ev, formula, c, r) ==
    IF r.ok THEN
        IF IsNeg(r.v) THEN [found |-> TRUE, value |-> r.v, err |-> FALSE]
        ELSE NegativeSqrtFrom(ev, formula, c + 1)
    ELSE IF r.exc \in {"ValueError", "NameError", "ZeroDivisionError"}
         THEN NegativeSqrtFrom(ev, formula, c + 1)
    ELSE [found |-> FALSE, value |-> NoValue, err |-> TRUE]

NegativeSqrtFrom(ev, formula, i) ==
    LET p == FindFrom(formula, MathSqrtOpen, i)
        a == p + Len(MathSqrtOpen)
        c == IndexFrom(formula, ")", a)
    IN  IF p = 0 THEN [found |-> FALSE, value |-> NoValue, err |-> FALSE]
        ELSE IF c = 0 \/ c = a THEN NegativeSqrtFrom(ev, formula, p + 1)
        ELSE NegativeSqrtMatch(ev, formula, c,
                               safe_eval(ev, SubSeq(formula, a, c - 1)))

\* No pre-check: nothing is ever found
find_nothing(ev, formula) == [found |-> FALSE, value |-> NoValue, err |-> FALSE]

find_negative_sqrt(ev, formula) == NegativeSqrtFrom(ev, formula, 1)

(***************************************************************************)
(* compute_formula.  Its outcome is [kind, tag, why, v, arg, text]:        *)
(*   kind "num":   the number v is returned;                               *)
(*   kind "str":   the string tag is returned; for "Can't sqrt with value" *)
(*                 the string goes on with (v) or (arg) and " in " text;   *)
(*   kind "raise": the exception of class tag is raised (why tells which). *)
(***************************************************************************)
Returned(v) ==
    [kind |-> "num", tag |-> "", why |-> "", v |-> v, arg |-> <<>>, text |-> <<>>]
ReturnedStr(tag) ==
    [kind |-> "str", tag |-> tag, why |-> "", v |-> NoValue, arg |-> <<>>, text |-> <<>>]
CantSqrt(v, arg, formula) ==
    [kind |-> "str", tag |-> "Can't sqrt with value", why |-> "", v |-> v,
     arg |-> arg, text |-> formula]
Raised(exc, why) ==
    [kind |-> "raise", tag |-> exc, why |-> why, v |-> NoValue, arg |-> <<>>,
     text |-> <<>>]

\* The inner try with an except clause that goes on to the generic raise
SqrtFallbackRaises(formula, sqrt_value, computed_value) ==
    IF computed_value.ok THEN CantSqrt(computed_value.v, <<>>, formula)
    ELSE IF computed_value.exc \in {"ValueError", "NameError", "ZeroDivisionError"}
         THEN Raised("ValueError", "math domain error")
    ELSE Raised(computed_value.exc, computed_value.why)

\* The inner try of the ValueError handler: computed_value is
\* safe_eval(sqrt_value).
SqrtFallback(formula, sqrt_value, computed_value) ==
    IF computed_value.ok THEN CantSqrt(computed_value.v, <<>>, formula)
    ELSE IF computed_value.exc \in {"ValueError", "NameError", "ZeroDivisionError"}
         THEN CantSqrt(NoValue, sqrt_value, formula)
    ELSE Raised(computed_value.exc, computed_value.why)

\* The except clauses for the exception in result, with
\* sqrt_value = get_sqrt_value(formula).
HandleError(ev, formula, result, sqrt_value) ==
    IF result.exc = "ZeroDivisionError" THEN Raised("ZeroDivisionError", result.why)
    ELSE IF result.exc = "ValueError" THEN
        IF result.why = "math domain error" /\ sqrt_value # <<>>
        THEN SqrtFallback(formula, sqrt_value, safe_eval(ev, sqrt_value))
        ELSE Raised("ValueError", result.why)
    ELSE IF result.exc = "NameError" THEN Raised("NameError", result.why)
    ELSE Raised(result.exc, result.why)

\* The handlers around result = safe_eval(formula).
HandleResult(ev, formula, result) ==
    IF result.ok THEN Returned(result.v)
    ELSE HandleError(ev, formula, result, get_sqrt_value(formula))

EvaluateFormula(ev, formula) == HandleResult(ev, formula, safe_eval(ev, formula))

\* From neg_sqrt = _find_negative_sqrt(formula) on.
AfterPreCheck(ev, formula, neg_sqrt) ==
    IF neg_sqrt.err THEN Raised("OutOfModel", "")
    ELSE IF neg_sqrt.found THEN CantSqrt(neg_sqrt.value, <<>>, formula)
    ELSE EvaluateFormula(ev, formula)

\* From the end of the substitution loop on.
AfterSubstitution(ev, sub) ==
    IF ~sub.ok THEN Raised("ValueError", sub.why)
    ELSE AfterPreCheck(ev, sub.formula, find_negative_sqrt(ev, sub.formula))

\* From the outcome wf of is_well_formed on.
AfterValidation(ev, input_string, unknown_value, wf) ==
    IF wf = "False" THEN ReturnedStr("Formula is not well formed")
    ELSE IF wf # "True" THEN ReturnedStr(wf)
    ELSE AfterSubstitution(ev, Substitute(RewriteKeywords(input_string),
                                          input_string, unknown_value))

\* compute_formula(input_string, unknown_value) with the shared evaluator ev.
\* unknown_value is a dict with str keys (the isinstance check passes).  The
\* branch that returns 'Undefined variable' needs a value that is None and
\* passed is_number: there is none.
compute_formula(ev, input_string, unknown_value) ==
    AfterValidation(ev, input_string, unknown_value,
                    is_well_formed(input_string, Keys(unknown_value)))

(***************************************************************************)
(* The caller.  A caller of the library composes a formula text piece by   *)
(* piece and a bindings dict item by item, calls compute_formula, reads    *)
(* the outcome and goes on to its next call with the same module-level     *)
(* evaluator (src/test_ComputeFormula.py and src/main.py are such          *)
(* callers).  suite names the pieces, names and values the caller draws    *)
(* from; it is fixed along a behaviour.                                    *)
(***************************************************************************)
VARIABLES
    suite,          \* the pool of inputs the caller draws from
    input_string,   \* the formula text, argument of compute_formula
    typed,          \* number of pieces typed into input_string
    unknown_value,  \* the bindings dict, in insertion order
    evaluator,      \* _safe_evaluator: its three tables
    pc,             \* "input": composing the arguments; "done": call over
    outcome,        \* what the last call returned or raised
    calls           \* number of calls made so far

vars == <<suite, input_string, typed, unknown_value, evaluator, pc, outcome, calls>>

NoOutcome == [kind |-> "none", tag |-> "", why |-> "", v |-> NoValue,
              arg |-> <<>>, text |-> <<>>]


\* The pieces of formula text of each suite.
Fragments(name) ==
    CASE name = "validator" ->
           {<<"(">>, <<")">>, <<" ">>, <<"x">>, <<"h">>, <<"1">>}
      [] name = "names" ->
           {<<"x">>, <<"y">>, <<"h">>, <<"+">>, <<"*">>, <<"1", "/", "0">>}
      [] name = "division" ->
           {<<"1">>, <<"0">>, <<"/">>, <<"x">>, <<"*", "*", "-", "1">>,
            <<"m", "o", "d", "(", "1", ",", "0", ")">>,
            <<"l", "o", "g", "(", "2", ",", "1", ")">>}
      [] name = "sqrt" ->
           {<<"s", "q", "r", "t", "(">>, <<"0", "-", "4">>,
            <<"(", "0", "-", "4", ")">>, <<")">>, <<"x">>, <<"1", "/", "0", "+">>}
      [] name = "roundtrip" ->
           {<<"x">>, <<"s">>, <<"a", "b", "s", "(">>, <<")">>, <<"*", "*">>}
      [] name = "order" -> {<<"x">>, <<"y">>, <<"*", "*">>}
      [] name = "precedence" ->
           {<<"2">>, <<"-">>, <<"*", "*", "2">>, <<"*", "*", "3">>, <<"-", "3">>,
            <<"/", "2">>, <<"(", "2", "-", "3", ")">>}
      [] name = "substitution" ->
           {<<"a", "b", "s", "(">>, <<"a">>, <<"x">>, <<")">>, <<"+">>}
      [] name = "evalorder" ->
           {<<"y">>, <<"1", "/", "0">>, <<"x">>, <<"+">>, <<"y", "(">>, <<")">>,
            <<"p", "o", "w", "(", "y", ",">>,
            <<"p", "o", "w", "(", "1", "/", "0", ",">>}
      [] name = "fallback" ->
           {<<"s", "q", "r", "t", "(">>, <<"4", ")">>, <<"x", ")">>, <<"+">>,
            <<"l", "o", "g", "(", "0", ")">>, <<"m", "o", "d", "(", "1", ",", "0", ")">>}
      [] OTHER -> {}

\* The variable names of each suite.
Names(name) ==
    CASE name = "validator" -> {<<"h">>, <<"1", "x">>}
      [] name = "names" -> {<<"x">>, <<"y">>}
      [] name = "division" -> {<<"x">>}
      [] name = "sqrt" -> {<<"x">>, <<"t">>}
      [] name = "roundtrip" -> {<<"x">>, <<"s">>}
      [] name = "order" -> {<<"x">>, <<"y">>, <<"x", "y">>}
      [] name = "precedence" -> {<<"x">>}
      [] name = "substitution" -> {<<"a">>, <<"x">>}
      [] name = "fallback" -> {<<"x">>}
      [] name = "evalorder" -> {<<"x">>}
      [] OTHER -> {}

\* The values of each suite.
Values(name) ==
    CASE name = "validator" -> {Int_(2), NotANumber}
      [] name = "names" -> {Int_(2)}
      [] name = "division" -> {Int_(0), Flt(0, 1)}
      [] name = "sqrt" -> {Int_(-4), Flt(-4, 1)}
      [] name = "roundtrip" -> {Int_(-2), Flt(1, 2)}
      [] name = "order" -> {Int_(2), Int_(-3)}
      [] name = "precedence" -> {Int_(-2)}
      [] name = "substitution" -> {Int_(-2), Flt(1, 2)}
      [] name = "fallback" -> {Int_(-4), Int_(4)}
      [] name = "evalorder" -> {Int_(2)}
      [] OTHER -> {}

\* d[key] = value on a dict kept as the sequence of its items
DictSet(d, key, value) ==
    IF \E i \in 1..Len(d) : d[i].key = key
    THEN [i \in 1..Len(d) |-> IF d[i].key = key
                               THEN [key |-> key, value |-> value] ELSE d[i]]
    ELSE Append(d, [key |-> key, value |-> value])

InitSuite(name) ==
    /\ suite = name
    /\ input_string = <<>>
    /\ typed = 0
    /\ unknown_value = <<>>
    /\ evaluator = SafeEvaluator
    /\ pc = "input"
    /\ outcome = NoOutcome
    /\ calls = 0

\* The caller appends a piece to the formula text.
TypeFragment ==
    /\ pc = "input"
    /\ typed < MaxFrags
    /\ \E f \in Fragments(suite) : input_string' = input_string \o f
    /\ typed' = typed + 1
    /\ UNCHANGED <<suite, unknown_value, evaluator, pc, outcome, calls>>

\* The caller sets an item of the bindings dict.
Bind ==
    /\ pc = "input"
    /\ \E key \in Names(suite), value \in Values(suite) :
          /\ Len(DictSet(unknown_value, key, value)) <= MaxBindings
          /\ unknown_value' = DictSet(unknown_value, key, value)
    /\ UNCHANGED <<suite, input_string, typed, evaluator, pc, outcome, calls>>

\* The function of a call taken out of the table once used
EvaluatorAfterPop(ev, expression) ==
    [ev EXCEPT !.functions =
        {f \in @ : ~Contains(expression, SubSeq(f.name, 6, Len(f.name)) \o <<"(">>)}]

\* What a call leaves in the evaluator it used: evaluate and _eval_node read
\* self.operators, self.functions and self.constants and assign to none.
EvaluatorAfterEvaluate(ev, expression) == ev

\* outcome = compute_formula(input_string, unknown_value), the call as a whole.
\* The function reads unknown_value (keys(), items()) and never writes to it.
Call ==
    /\ pc = "input"
    /\ calls < MaxCalls
    /\ outcome' = compute_formula(evaluator, input_string, unknown_value)
    /\ evaluator' = EvaluatorAfterEvaluate(evaluator, input_string)
    /\ pc' = "done"
    /\ calls' = calls + 1
    /\ UNCHANGED <<suite, input_string, typed, unknown_value>>

\* The caller has read the outcome and goes on composing its next call.
Resume ==
    /\ pc = "done"
    /\ pc' = "input"
    /\ outcome' = NoOutcome
    /\ UNCHANGED <<suite, input_string, typed, unknown_value, evaluator, calls>>

Next == TypeFragment \/ Bind \/ Call \/ Resume

SpecValidator == InitSuite("validator") /\ [][Next]_vars
SpecNames == InitSuite("names") /\ [][Next]_vars
SpecDivision == InitSuite("division") /\ [][Next]_vars
SpecSqrt == InitSuite("sqrt") /\ [][Next]_vars
SpecRoundTrip == InitSuite("roundtrip") /\ [][Next]_vars
SpecOrder == InitSuite("order") /\ [][Next]_vars
SpecPrecedence == InitSuite("precedence") /\ [][Next]_vars
SpecSubstitution == InitSuite("substitution") /\ [][Next]_vars
SpecFallback == InitSuite("fallback") /\ [][Next]_vars
SpecEvalOrder == InitSuite("evalorder") /\ [][Next]_vars

(***************************************************************************)
(* Vocabulary of the claims, stated on the arguments and the outcome of a  *)
(* call, without the operators of the model.                               *)
(***************************************************************************)
Count(s, c, i) == Cardinality({j \in 1..i : s[j] = c})

\* Scanning left to right no ")" comes with no unmatched "(" before it, and
\* no "(" is unmatched at the end.
Balanced(s) ==
    /\ \A i \in 1..Len(s) : Count(s, ")", i) <= Count(s, "(", i)
    /\ Count(s, "(", Len(s)) = Count(s, ")", Len(s))

OnlyWhitespace(s) == \A i \in 1..Len(s) : s[i] \in {" ", "\t", "\n"}

KeywordLetters ==
    Range(<<"s", "q", "r", "t", "l", "o", "g", "s", "i", "n", "c", "o", "s",
            "t", "a", "n", "f", "l", "o", "o", "r", "c", "e", "i", "l",
            "f", "a", "c", "t", "o", "r", "i", "a", "l", "a", "b", "s",
            "m", "o", "d", "P", "I", "p", "o", "w">>)

NameChars(bindings) == UNION {Range(bindings[i].key) : i \in 1..Len(bindings)}

\* The allow-list as the specification words it.
StatedAllowList(bindings) ==
    {"0", "1", "2", "3", "4", "5", "6", "7", "8", "9"}
    \cup {".", "(", ")", "+", "-", "*", "/", ","}
    \cup {" ", "\t", "\n"}
    \cup KeywordLetters
    \cup NameChars(bindings)

\* The allow-list with the letters x, y and z, which need no declaration.
AllowList(bindings) == StatedAllowList(bindings) \cup {"x", "y", "z"}

Done == pc = "done"
IsString(tag) == outcome.kind = "str" /\ outcome.tag = tag
Raises(exc) == outcome.kind = "raise" /\ outcome.tag = exc

\* The model gives the call a value: nothing in it fell outside the numbers
\* and lexemes the model represents.
InModel == ~Raises("OutOfModel")

\* C1: a call returns "Parentheses are not matched" exactly when the
\* parentheses of its formula are unbalanced, whatever the bindings and the
\* other defects of the formula.
C1_ParenthesesIffUnbalanced ==
    Done => (IsString("Parentheses are not matched") <=> ~Balanced(input_string))

C1_Witness ==
    /\ Done
    /\ IsString("Parentheses are not matched")
    /\ \E i \in 1..Len(input_string) :
          input_string[i] \notin AllowList(unknown_value)
    /\ \E i \in 1..Len(unknown_value) : unknown_value[i].value = NotANumber

\* C2 as stated: for a balanced formula that is not blank, "Formula is not
\* well formed" is returned exactly when a character is outside the stated
\* allow-list (which has no x, y, z).
C2_Stated ==
    Done /\ Balanced(input_string) /\ ~OnlyWhitespace(input_string)
    => (IsString("Formula is not well formed")
        <=> \E i \in 1..Len(input_string) :
               input_string[i] \notin StatedAllowList(unknown_value))

\* C2 amended: the same with x, y and z in the allow-list whether declared
\* or not (names made of letters and digits).
C2_NotWellFormedIffOutsideAllowList ==
    Done /\ Balanced(input_string) /\ ~OnlyWhitespace(input_string)
    => (IsString("Formula is not well formed")
        <=> \E i \in 1..Len(input_string) :
               input_string[i] \notin AllowList(unknown_value))

C2_Witness ==
    /\ Done
    /\ Balanced(input_string)
    /\ IsString("Formula is not well formed")
    /\ \E i \in 1..Len(input_string) : input_string[i] = "h"
    /\ \E i \in 1..Len(input_string) : input_string[i] = "x"
    /\ unknown_value # <<>>

\* C3: a call on an empty or all-whitespace formula returns "Formula is
\* empty", whatever the bindings.
C3_BlankIsEmpty ==
    Done /\ OnlyWhitespace(input_string) => IsString("Formula is empty")

C3_Witness ==
    /\ Done
    /\ Len(input_string) >= 2
    /\ OnlyWhitespace(input_string)
    /\ Len(unknown_value) > 0
    /\ IsString("Formula is empty")

PurelyAlphabetic(name) == name # <<>> /\ Range(name) \subseteq AsciiLetters
PlainNumber(value) == value.ty \in {"int", "float"}
BadBinding(bindings) ==
    \E i \in 1..Len(bindings) :
        ~PurelyAlphabetic(bindings[i].key) \/ ~PlainNumber(bindings[i].value)

\* The validator accepts the formula: balanced, not blank, every character
\* in the allow-list.
Accepted(s, bindings) ==
    /\ Balanced(s)
    /\ ~OnlyWhitespace(s)
    /\ \A i \in 1..Len(s) : s[i] \in AllowList(bindings)

ShortNames ==
    {[name |-> <<"s", "q", "r", "t">>, fn |-> "math.sqrt"],
     [name |-> <<"l", "o", "g">>, fn |-> "math.log"],
     [name |-> <<"s", "i", "n">>, fn |-> "math.sin"],
     [name |-> <<"c", "o", "s">>, fn |-> "math.cos"],
     [name |-> <<"t", "a", "n">>, fn |-> "math.tan"],
     [name |-> <<"m", "o", "d">>, fn |-> "math.fmod"],
     [name |-> <<"p", "o", "w">>, fn |-> "math.pow"],
     [name |-> <<"f", "a", "c", "t", "o", "r", "i", "a", "l">>, fn |-> "math.factorial"],
     [name |-> <<"a", "b", "s">>, fn |-> "math.fabs"],
     [name |-> <<"f", "l", "o", "o", "r">>, fn |-> "math.floor"],
     [name |-> <<"c", "e", "i", "l">>, fn |-> "math.ceil"]}

IdentifierChars == AsciiLetters \cup Digits \cup {"."}

\* Every occurrence of the name in the text is a whole identifier.
WholeIdentifier(text, name) ==
    \A p \in 1..Len(text) :
        MatchAt(text, name, p) =>
            /\ p = 1 \/ text[p - 1] \notin IdentifierChars
            /\ p + Len(name) > Len(text) \/ text[p + Len(name)] \notin IdentifierChars

\* The textual substitution meets only whole identifiers: after the keyword
\* rewrites each bound name occurs only as a whole identifier, no name
\* holds PI, no name occurs in the printed form of a bound value, and no
\* short name is followed by a blank.
SubstitutionIsClean(s, bindings) ==
    /\ \A i \in 1..Len(bindings) :
          /\ WholeIdentifier(RewriteKeywords(s), bindings[i].key)
          /\ ~Contains(bindings[i].key, <<"P", "I">>)
          /\ \A j \in 1..Len(bindings) :
                ~Contains(PyStr(bindings[j].value), bindings[i].key)
    /\ \A e \in ShortNames : \A ws \in WhiteSpace :
          ~Contains(s, e.name \o <<ws>>)

\* The names a formula refers to: its maximal runs of letters.
LetterRuns(s) ==
    {SubSeq(s, i, j) : <<i, j>> \in
        {r \in (1..Len(s)) \X (1..Len(s)) :
            /\ r[1] <= r[2]
            /\ \A k \in r[1]..r[2] : s[k] \in AsciiLetters
            /\ (r[1] = 1 \/ s[r[1] - 1] \notin AsciiLetters)
            /\ (r[2] = Len(s) \/ s[r[2] + 1] \notin AsciiLetters)}}

Keywords ==
    {<<"s", "q", "r", "t">>, <<"l", "o", "g">>, <<"s", "i", "n">>,
     <<"c", "o", "s">>, <<"t", "a", "n">>, <<"m", "o", "d">>, <<"p", "o", "w">>,
     <<"f", "a", "c", "t", "o", "r", "i", "a", "l">>, <<"a", "b", "s">>,
     <<"f", "l", "o", "o", "r">>, <<"c", "e", "i", "l">>, <<"P", "I">>}

BoundNames(bindings) == {bindings[i].key : i \in 1..Len(bindings)}

\* The names the formula refers to that are neither bound nor keywords.
AbsentNames(s, bindings) == LetterRuns(s) \ (Keywords \cup BoundNames(bindings))

\* Those of them that are names of the expression language, not its
\* reserved words (in, is, or, ...).
AbsentIdentifiers(s, bindings) == AbsentNames(s, bindings) \ PyKeywords

ProbeValues == {Int_(2), Flt(-1, 2)}

\* The same call with the absent name bound as well (last in the bindings)
\* would return a number.
ReturnsNumberOnceBound(name) ==
    \E value \in ProbeValues :
        compute_formula(SafeEvaluator, input_string,
                        Append(unknown_value, [key |-> name, value |-> value])).kind
            = "num"

Squeezed(s) == SelectSeq(s, LAMBDA c : c \notin {" ", "\t", "\n"})

\* No call argument of the formula starts with "**".
NoUnpacking(s) ==
    /\ ~Contains(Squeezed(s), <<"(", "*", "*">>)
    /\ ~Contains(Squeezed(s), <<",", "*", "*">>)

ZeroDivisor(d, s, bindings) ==
    \/ d = <<"0">>
    \/ /\ \E i \in 1..Len(bindings) :
             /\ bindings[i].key = d
             /\ PlainNumber(bindings[i].value)
             /\ bindings[i].value.n = 0
       /\ SubstitutionIsClean(s, bindings)

\* The formula ends in a division by zero that evaluation gets to: what
\* stands before the final "/" evaluates to a number.
DividesByZero ==
    \E k \in 2..(Len(input_string) - 1) :
        /\ input_string[k] = "/"
        /\ ZeroDivisor(SubSeq(input_string, k + 1, Len(input_string)),
                       input_string, unknown_value)
        /\ compute_formula(SafeEvaluator, SubSeq(input_string, 1, k - 1),
                           unknown_value).kind = "num"

\* C5 as stated: ZeroDivisionError is raised exactly for a division "/" by
\* zero, and by no other operator or function.
C5_Stated ==
    Done =>
        /\ DividesByZero => Raises("ZeroDivisionError")
        /\ Raises("ZeroDivisionError") => Contains(input_string, <<"/">>)

\* C5 amended: every division "/" by zero that is performed raises
\* ZeroDivisionError; apart from that only zero to a negative power with
\* "**" and a logarithm to base 1 do, and no other operator or function.
C5_DivisionByZero ==
    Done =>
        /\ DividesByZero => Raises("ZeroDivisionError")
        /\ Raises("ZeroDivisionError") =>
              \/ outcome.why = "Div" /\ Contains(input_string, <<"/">>)
              \/ outcome.why = "Pow" /\ Contains(input_string, <<"*", "*">>)
              \/ outcome.why = "math.log"
                    /\ Contains(input_string, <<"l", "o", "g", "(">>)

C5_Witness ==
    /\ Done
    /\ DividesByZero
    /\ Contains(input_string, <<"*", "*", "-", "1", "/", "x">>)
    /\ unknown_value = <<[key |-> <<"x">>, value |-> Flt(0, 1)]>>
    /\ Raises("ZeroDivisionError")
    /\ outcome.why = "Div"

SqrtOpen == <<"s", "q", "r", "t", "(">>

\* An argument text that evaluates to a negative number: plain, in nested
\* parentheses, or a variable bound to a negative number.
NegativeArguments(bindings) ==
    {<<"0", "-", "4">>, <<"(", "0", "-", "4", ")">>}
        \cup {bindings[i].key : i \in {j \in 1..Len(bindings) :
                                          /\ PlainNumber(bindings[j].value)
                                          /\ bindings[j].value.n < 0}}

FirstSqrtArgument(s) ==
    LET p == FindFrom(s, SqrtOpen, 1)
        c == IndexFrom(s, ")", p + Len(SqrtOpen))
    IN  IF p = 0 \/ c = 0 THEN <<>> ELSE SubSeq(s, p + Len(SqrtOpen), c - 1)

\* The argument holds no parenthesis and no letter.
Plain(arg) == arg # <<>> /\ Range(arg) \cap (AsciiLetters \cup {"("}) = {}

\* The number a plain argument evaluates to on its own, NoValue when it is
\* no expression.
ValueAlone(arg) ==
    IF Plain(arg) /\ safe_eval(SafeEvaluator, arg).ok
    THEN safe_eval(SafeEvaluator, arg).v ELSE NoValue

\* No bound name lies within the words the pre-check looks for.
NoKeywordCollision(bindings) ==
    \A i \in 1..Len(bindings) :
        /\ ~Contains(<<"m", "a", "t", "h">>, bindings[i].key)
        /\ ~Contains(<<"s", "q", "r", "t">>, bindings[i].key)

Bound(bindings, name) == \E i \in 1..Len(bindings) : bindings[i].key = name
ValueOf(bindings, name) ==
    bindings[CHOOSE i \in 1..Len(bindings) : bindings[i].key = name].value

RECURSIVE Direct(_, _), DirectArgs(_, _, _, _)

DirectArgs(args, k, acc, bindings) ==
    IF k > Len(args) THEN [ok |-> TRUE, vals |-> acc]
    ELSE IF ~Direct(args[k], bindings).ok THEN [ok |-> FALSE, vals |-> acc]
    ELSE DirectArgs(args, k + 1, Append(acc, Direct(args[k], bindings).v), bindings)

Direct(node, bindings) ==
    CASE node.t = "Constant" ->
            IF PlainNumber(node.v) THEN Ok(node.v) ELSE Err("direct", "")
      [] node.t = "Name" ->
            IF Bound(bindings, node.id) THEN Ok(ValueOf(bindings, node.id))
            ELSE IF node.id = <<"P", "I">> THEN Ok(MathPi)
            ELSE Err("direct", "")
      [] node.t = "BinOp" ->
            IF ~Direct(node.left, bindings).ok \/ ~Direct(node.right, bindings).ok
               \/ ~Has(SAFE_OPERATORS, "op", node.op)
            THEN Err("direct", "")
            ELSE ApplyOperator(Lookup(SAFE_OPERATORS, "op", node.op).fn,
                               Direct(node.left, bindings).v,
                               Direct(node.right, bindings).v)
      [] node.t = "UnaryOp" ->
            IF ~Direct(node.operand, bindings).ok
               \/ ~Has(SAFE_OPERATORS, "op", node.op)
            THEN Err("direct", "")
            ELSE ApplyUnary(Lookup(SAFE_OPERATORS, "op", node.op).fn,
                            Direct(node.operand, bindings).v)
      [] node.t = "Call" ->
            IF node.func.t # "Name" THEN Err("direct", "")
            ELSE IF ~Has(ShortNames, "name", node.func.id) THEN Err("direct", "")
            ELSE IF ~DirectArgs(node.args, 1, <<>>, bindings).ok THEN Err("direct", "")
            ELSE ApplyFunction(Lookup(ShortNames, "name", node.func.id).fn,
                               DirectArgs(node.args, 1, <<>>, bindings).vals)
      [] OTHER -> Err("direct", "")

DirectTree(tree, bindings) ==
    IF tree.st = "ok" THEN Direct(tree.node, bindings) ELSE Err("direct", "")

\* The value of the formula computed directly, not ok when it has none.
DirectValue(s, bindings) == DirectTree(Parse(s), bindings)

SameNumber(a, b) == PlainNumber(a) /\ PlainNumber(b) /\ a.n * b.d = b.n * a.d

\* The call returns the number the direct computation gives.
ReturnsDirectValue ==
    /\ outcome.kind = "num"
    /\ SameNumber(outcome.v, DirectValue(input_string, unknown_value).v)

\* C8 as stated: whenever the formula has a value computed directly with the
\* bound values, the call returns that value.
C8_Stated ==
    /\ Done
    /\ InModel
    /\ ~BadBinding(unknown_value)
    /\ DirectValue(input_string, unknown_value).ok
    => ReturnsDirectValue

\* C8 amended: the call returns the directly computed value when the
\* validator accepts the formula and the textual substitution meets only
\* whole identifiers.
C8_RoundTrip ==
    /\ Done
    /\ InModel
    /\ ~BadBinding(unknown_value)
    /\ Accepted(input_string, unknown_value)
    /\ SubstitutionIsClean(input_string, unknown_value)
    /\ DirectValue(input_string, unknown_value).ok
    => ReturnsDirectValue

C8_Witness ==
    /\ Done
    /\ input_string = <<"a", "b", "s", "(", "x", ")">>
    /\ unknown_value = <<[key |-> <<"x">>, value |-> Int_(-2)]>>
    /\ SubstitutionIsClean(input_string, unknown_value)
    /\ DirectValue(input_string, unknown_value) = Ok(Flt(2, 1))
    /\ ReturnsDirectValue

\* The orderings of the same bindings.
Orderings(bindings) ==
    {[i \in 1..Len(bindings) |-> bindings[f[i]]] :
        f \in {g \in [1..Len(bindings) -> 1..Len(bindings)] :
                  \A a, b \in 1..Len(bindings) : a # b => g[a] # g[b]}}

\* Every ordering of the bindings gives the outcome of the call.
OrderIrrelevant ==
    \A ordering \in Orderings(unknown_value) :
        compute_formula(SafeEvaluator, input_string, ordering) = outcome

\* C9 as stated: with valid bindings the outcome is the same for every
\* ordering of them, also when a name is a substring of another.
C9_Stated == Done /\ ~BadBinding(unknown_value) => OrderIrrelevant

\* The texts a and b can overlap: one lies within the other, or an ending of
\* one is a beginning of the other.
Overlap(a, b) ==
    \/ Contains(a, b)
    \/ Contains(b, a)
    \/ \E k \in 1..Len(a) :
          k <= Len(b) /\ SubSeq(a, Len(a) - k + 1, Len(a)) = SubSeq(b, 1, k)
    \/ \E k \in 1..Len(b) :
          k <= Len(a) /\ SubSeq(b, Len(b) - k + 1, Len(b)) = SubSeq(a, 1, k)

\* No two names overlap and no name occurs in the printed form of a value.
NamesApart(bindings) ==
    \A i, j \in 1..Len(bindings) :
        /\ i # j => ~Overlap(bindings[i].key, bindings[j].key)
        /\ ~Contains(PyStr(bindings[j].value), bindings[i].key)

\* C9 amended: with valid bindings whose names do not overlap, the outcome
\* is the same for every ordering of them.
C9_OrderIrrelevantWhenApart ==
    Done /\ ~BadBinding(unknown_value) /\ NamesApart(unknown_value)
    => OrderIrrelevant

C9_Witness ==
    /\ Done
    /\ input_string = <<"x", "*", "*", "y">>
    /\ unknown_value = <<[key |-> <<"y">>, value |-> Int_(-3)],
                         [key |-> <<"x">>, value |-> Int_(2)]>>
    /\ NamesApart(unknown_value)
    /\ outcome = Returned(Flt(1, 8))
    /\ OrderIrrelevant

Operands == {Int_(2), Int_(3)}
Lit(a) == NatStr(a.n)
Pow(a, b) == ApplyOperator("operator.pow", a, b).v
Quot(a, b) == ApplyOperator("operator.truediv", a, b).v
Diff(a, b) == ApplyOperator("operator.sub", a, b).v
Neg(a) == ApplyUnary("operator.neg", a).v

\* The formula is the text and the call returns the value.
Gives(text, value) == input_string = text => outcome = Returned(value)

\* -a**b is (-a)**b
SignBeforePower ==
    \A a, b \in Operands :
        Gives(<<"-">> \o Lit(a) \o <<"*", "*">> \o Lit(b), Pow(Neg(a), b))

\* -a**b is -(a**b)
PowerBeforeSign ==
    \A a, b \in Operands :
        Gives(<<"-">> \o Lit(a) \o <<"*", "*">> \o Lit(b), Neg(Pow(a, b)))

\* a**b**c is a**(b**c); a/b/c is (a/b)/c; a-b-c is (a-b)-c; ** goes
\* before /, and / and ** before -; parentheses override.
OtherGrouping ==
    \A a, b, c \in Operands :
        /\ Gives(Lit(a) \o <<"*", "*">> \o Lit(b) \o <<"*", "*">> \o Lit(c),
                 Pow(a, Pow(b, c)))
        /\ Gives(Lit(a) \o <<"/">> \o Lit(b) \o <<"/">> \o Lit(c),
                 Quot(Quot(a, b), c))
        /\ Gives(Lit(a) \o <<"-">> \o Lit(b) \o <<"-">> \o Lit(c),
                 Diff(Diff(a, b), c))
        /\ Gives(Lit(a) \o <<"/">> \o Lit(b) \o <<"*", "*">> \o Lit(c),
                 Quot(a, Pow(b, c)))
        /\ Gives(Lit(a) \o <<"-">> \o Lit(b) \o <<"/">> \o Lit(c),
                 Diff(a, Quot(b, c)))
        /\ Gives(Lit(a) \o <<"-">> \o Lit(b) \o <<"*", "*">> \o Lit(c),
                 Diff(a, Pow(b, c)))
        /\ Gives(<<"(">> \o Lit(a) \o <<"-">> \o Lit(b) \o <<")", "*", "*">> \o Lit(c),
                 Pow(Diff(a, b), c))
        /\ Gives(<<"(">> \o Lit(a) \o <<"-">> \o Lit(b) \o <<")", "/">> \o Lit(c),
                 Quot(Diff(a, b), c))

\* C11 as stated: a unary sign binds tighter than **, so -2**2 is (-2)**2;
\* ** is right-associative, * / and + - are left-associative in that order
\* of precedence, and parentheses override.
C11_Stated == Done /\ InModel => SignBeforePower /\ OtherGrouping

\* C11 amended: ** binds tighter than a unary sign on its left, so -2**2 is
\* -(2**2); the rest of the grouping is as stated.
C11_Grouping == Done /\ InModel => PowerBeforeSign /\ OtherGrouping

C11_Witness ==
    /\ Done
    /\ input_string = <<"-", "2", "*", "*", "2">>
    /\ outcome = Returned(Int_(-4))

(***************************************************************************)
(* The substitution as C12 describes it, on a text whose characters are    *)
(* marked: o is TRUE for a character of the original formula, FALSE for    *)
(* one that a keyword rewrite or an earlier substitution introduced.       *)
(***************************************************************************)
Original(t) == [i \in 1..Len(t) |-> [c |-> t[i], o |-> TRUE]]
Introduced(t) == [i \in 1..Len(t) |-> [c |-> t[i], o |-> FALSE]]
Chars(mt) == [i \in 1..Len(mt) |-> mt[i].c]

\* What a rewrite puts for its keyword: the keyword stays original when the
\* new text ends with it, what stands before it is introduced.
Rewritten(pair) ==
    LET short == pair[1]
        long == pair[2]
        k == Len(long) - Len(short)
    IN  IF k > 0 /\ SubSeq(long, k + 1, Len(long)) = short
        THEN Introduced(SubSeq(long, 1, k)) \o Original(short)
        ELSE Introduced(long)

\* Every occurrence of p from index i on replaced by the marked text new;
\* with whole, only occurrences made of original characters count.
RECURSIVE MarkedReplace(_, _, _, _, _)
MarkedReplace(mt, p, new, whole, i) ==
    IF i > Len(mt) THEN <<>>
    ELSE IF /\ MatchAt(Chars(mt), p, i)
            /\ whole => \A k \in i..(i + Len(p) - 1) : mt[k].o
         THEN new \o MarkedReplace(mt, p, new, whole, i + Len(p))
    ELSE <<mt[i]>> \o MarkedReplace(mt, p, new, whole, i + 1)

RECURSIVE MarkedRewrite(_, _)
MarkedRewrite(mt, k) ==
    IF k > Len(Rewrites) THEN mt
    ELSE MarkedRewrite(MarkedReplace(mt, Rewrites[k][1], Rewritten(Rewrites[k]),
                                     FALSE, 1), k + 1)

RECURSIVE MarkedSubstitute(_, _, _, _)
MarkedSubstitute(mt, s, bindings, k) ==
    IF k > Len(bindings) THEN mt
    ELSE IF ~Contains(s, bindings[k].key) THEN MarkedSubstitute(mt, s, bindings, k + 1)
    ELSE MarkedSubstitute(
            MarkedReplace(mt, bindings[k].key,
                          Introduced(<<"(">> \o PyStr(bindings[k].value) \o <<")">>),
                          TRUE, 1),
            s, bindings, k + 1)

\* The normalized formula when only original occurrences are replaced.
OriginalOnly(s, bindings) ==
    Chars(MarkedSubstitute(MarkedRewrite(Original(s), 1), s, bindings, 1))

\* The normalized formula of the call.
Normalized(s, bindings) == Substitute(RewriteKeywords(s), s, bindings).formula

\* C12 as stated: a substitution replaces exactly the occurrences of the
\* name that are in the original text; text that a keyword rewrite or an
\* earlier substitution introduced is never altered.
C12_Stated ==
    Done /\ ~BadBinding(unknown_value)
    => Normalized(input_string, unknown_value)
          = OriginalOnly(input_string, unknown_value)

\* In the rewritten formula no occurrence of a bound name takes in a
\* character that a rewrite introduced, and no bound name occurs in the
\* printed form of a bound value.
NamesMissIntroducedText(s, bindings) ==
    LET mt == MarkedRewrite(Original(s), 1)
        text == Chars(mt)
    IN  \A i \in 1..Len(bindings) :
            /\ \A p \in 1..Len(mt) :
                  MatchAt(text, bindings[i].key, p)
                  => \A k \in p..(p + Len(bindings[i].key) - 1) : mt[k].o
            /\ \A j \in 1..Len(bindings) :
                  ~Contains(PyStr(bindings[j].value), bindings[i].key)

\* C12 amended: it does so when no occurrence of a bound name in the
\* rewritten formula reaches into introduced text.
C12_OriginalOccurrencesOnly ==
    /\ Done
    /\ ~BadBinding(unknown_value)
    /\ NamesMissIntroducedText(input_string, unknown_value)
    => Normalized(input_string, unknown_value)
          = OriginalOnly(input_string, unknown_value)

C12_Witness ==
    /\ Done
    /\ input_string = <<"a", "b", "s", "(", "x", ")">>
    /\ unknown_value = <<[key |-> <<"x">>, value |-> Int_(-2)]>>
    /\ NamesMissIntroducedText(input_string, unknown_value)
    /\ Normalized(input_string, unknown_value)
          = <<"m", "a", "t", "h", ".", "f", "a", "b", "s", "(",
              "(", "-", "2", ")", ")">>
    /\ Normalized(input_string, unknown_value)
          = OriginalOnly(input_string, unknown_value)

(***************************************************************************)
(* The fallback of compute_formula after a math domain error.              *)
(***************************************************************************)
\* Full evaluation of the call's normalized formula failed with a math
\* domain error that the pre-check did not catch.
UncaughtDomainError ==
    /\ is_well_formed(input_string, Keys(unknown_value)) = "True"
    /\ ~BadBinding(unknown_value)
    /\ ~find_negative_sqrt(SafeEvaluator,
                           Normalized(input_string, unknown_value)).found
    /\ safe_eval(SafeEvaluator, Normalized(input_string, unknown_value))
          = DomainError

\* The text from the first "math.sqrt(" of t to the next ")" that leaves at
\* least one character between them, <<>> when there is none.
ExtractedArgument(t) ==
    LET p == FindFrom(t, MathSqrtOpen, 1)
        a == p + Len(MathSqrtOpen)
        c == IndexFrom(t, ")", a + 1)
    IN  IF p = 0 \/ c = 0 THEN <<>> ELSE SubSeq(t, a, c - 1)

ReEvaluated(arg) == safe_eval(SafeEvaluator, arg)
GenericValueError == Raises("ValueError") /\ outcome.why = "math domain error"

\* C13 as stated: after such a failure the call returns the "Can't sqrt"
\* string only if the first sqrt argument can be extracted and re-evaluated
\* to a number; in every other case it raises the generic ValueError.
C13_Stated ==
    Done /\ InModel /\ UncaughtDomainError
    => LET arg == ExtractedArgument(Normalized(input_string, unknown_value))
       IN  IF arg # <<>> /\ ReEvaluated(arg).ok
           THEN IsString("Can't sqrt with value")
           ELSE GenericValueError

\* C13 amended: after such a failure the call returns the "Can't sqrt"
\* string whenever a first sqrt argument can be extracted, with its value
\* when the text re-evaluates to a number and with the text itself when it
\* does not; it raises the generic ValueError only when no argument can be
\* extracted.
C13_FallbackReturnsWhenExtractable ==
    Done /\ InModel /\ UncaughtDomainError
    => LET formula == Normalized(input_string, unknown_value)
           arg == ExtractedArgument(formula)
       IN  IF arg = <<>> THEN GenericValueError
           ELSE IF ReEvaluated(arg).ok
                THEN outcome = CantSqrt(ReEvaluated(arg).v, <<>>, formula)
           ELSE outcome = CantSqrt(NoValue, arg, formula)

C13_Witness ==
    /\ Done
    /\ UncaughtDomainError
    /\ input_string = <<"s", "q", "r", "t", "(", "x", ")">>
    /\ unknown_value = <<[key |-> <<"x">>, value |-> Int_(-4)]>>
    /\ outcome = CantSqrt(NoValue, <<"(", "-", "4">>,
                          MathSqrtOpen \o <<"(", "-", "4", ")", ")">>)

(***************************************************************************)
(* The order of evaluation.                                                *)
(***************************************************************************)
\* Operand texts: an undefined name, a division by zero, a bound variable.
Pieces == {<<"y">>, <<"1", "/", "0">>, <<"x">>}

\* What the operand gives when it is evaluated on its own.
Alone(a) == safe_eval(SafeEvaluator, Normalized(a, unknown_value))

\* The call raises the first failure of rs, a sequence of results in the
\* order of the text.
RaisesFirstOf(rs) ==
    IF ~rs[1].ok THEN outcome = Raised(rs[1].exc, rs[1].why)
    ELSE ~rs[2].ok => outcome = Raised(rs[2].exc, rs[2].why)

\* C14: the first failure in depth-first, left-to-right order is the one
\* reported: the left operand of a binary operation before the right one,
\* the arguments of a call from left to right, and an unknown callee before
\* any of its arguments.
C14_FirstFailureInOrder ==
    Done /\ InModel
    => \A a, b \in Pieces :
          /\ input_string = a \o <<"+">> \o b
             => RaisesFirstOf(<<Alone(a), Alone(b)>>)
          /\ input_string = <<"p", "o", "w", "(">> \o a \o <<",">> \o b \o <<")">>
             => RaisesFirstOf(<<Alone(a), Alone(b)>>)
          /\ input_string = <<"y", "(">> \o a \o <<")">>
             => outcome = Raised("NameError", "function")

C14_Witness ==
    /\ Done
    /\ input_string = <<"p", "o", "w", "(", "y", ",", "1", "/", "0", ")">>
    /\ Alone(<<"y">>) = Err("NameError", "name")
    /\ ~Alone(<<"1", "/", "0">>).ok
    /\ Alone(<<"1", "/", "0">>).exc = "ZeroDivisionError"
    /\ outcome = Raised("NameError", "name")

(***************************************************************************)
(* What a "Can't sqrt" string says of the formula.                         *)
(***************************************************************************)
\* The index of the ")" that closes the parenthesis open before index i,
\* 0 when there is none; depth counts the parentheses opened since.
RECURSIVE CloseOf(_, _, _)
CloseOf(t, i, depth) ==
    IF i > Len(t) THEN 0
    ELSE IF t[i] = "(" THEN CloseOf(t, i + 1, depth + 1)
    ELSE IF t[i] = ")" THEN IF depth = 0 THEN i ELSE CloseOf(t, i + 1, depth - 1)
    ELSE CloseOf(t, i + 1, depth)

\* The argument texts of the math.sqrt calls of t.
SqrtCallArguments(t) ==
    {SubSeq(t, p + Len(MathSqrtOpen), CloseOf(t, p + Len(MathSqrtOpen), 0) - 1) :
        p \in {q \in 1..Len(t) : /\ MatchAt(t, MathSqrtOpen, q)
                                 /\ CloseOf(t, q + Len(MathSqrtOpen), 0) # 0}}

HasNegativeSqrt(t) ==
    \E arg \in SqrtCallArguments(t) :
        /\ safe_eval(SafeEvaluator, arg).ok
        /\ IsNeg(safe_eval(SafeEvaluator, arg).v)

\* C15: a call that returns a "Can't sqrt" string has a normalized formula
\* with a math.sqrt call whose argument evaluates to a negative number; the
\* domain failure of another function is never reported as a sqrt error.
C15_Stated ==
    Done /\ InModel /\ IsString("Can't sqrt with value")
    => HasNegativeSqrt(Normalized(input_string, unknown_value))

=============================================================================
